---- MODULE Spec2Model ----
(***************************************************************************)
(* A model of the virtual-machine control core of illusion-rs:             *)
(*   - HookManager::ept_hook_function (hypervisor/src/intel/hooks/         *)
(*     hook_manager.rs) over the Memory Manager, the primary EPT and the   *)
(*     physical memory it touches;                                         *)
(*   - handle_msr_access (hypervisor/src/intel/vmexit/msr.rs) over the     *)
(*     guest register snapshot, the hardware MSRs and the MSR bitmap.      *)
(*   - Vm::init, activate_vmxon, activate_vmcs, run and vm_succeed         *)
(*     (hypervisor/src/intel/vm.rs) over the launch state, the VMX state   *)
(*     of the processor and the two shared locks;                          *)
(*   - start_hypervisor_on_all_processors and start_hypervisor             *)
(*     (driver/src/processor.rs) over the enabled processors.              *)
(* The Memory Manager, the EPT, the inline-detour primitive and the        *)
(* address translation are collaborators whose code is not part of the     *)
(* modelled files; they are modelled from the design document.             *)
(***************************************************************************)
EXTENDS Integers, Sequences, FiniteSets, TLC

\* ------------------------------------------------------------------ sizes
\* hook_manager.rs:24
MAX_HOOKS == 64

\* Scaled-down geometry: bytes of a base page (BASE_PAGE_SIZE is 4096),
\* base pages of a large page (512), large pages of guest memory that the
\* caller picks hook targets from, and calls of ept_hook_function in a run.
PageBytes == 2
PagesPerLarge == 2
NumLarge == 2
MaxCalls == 2

LargeBytes == PageBytes * PagesPerLarge

\* Large pages of guest memory in the capacity runs: one more than MAX_HOOKS,
\* so that MAX_HOOKS + 1 hooks can be asked for on pages of distinct large
\* pages.
CapLarge == MAX_HOOKS + 1

\* The pool of pre-allocated shadow pages lies behind the largest guest memory
\* modelled (MemoryManager::new(MAX_HOOKS), hook_manager.rs:75). A page of the
\* pool enters `mem`, zeroed, when it is handed out.
ShadowPoolBase == CapLarge * LargeBytes
ShadowPageAddrs(base) == base .. (base + PageBytes - 1)

GuestAddrs(nlarge) == 0 .. (nlarge * LargeBytes - 1)

\* The guest maps its physical memory at a fixed virtual offset; the page
\* offset of an address survives the translation.
VaBase == 3 * LargeBytes
pa_from_va(va) == va - VaBase
va_from_pa(pa) == pa + VaBase

\* PAddr::align_down_to_base_page / align_down_to_large_page / base_page_offset
align_down_to_base_page(pa) == pa - (pa % PageBytes)
align_down_to_large_page(pa) == pa - (pa % LargeBytes)
base_page_offset(pa) == pa % PageBytes

\* index of a base page inside its large page (the PT index of the address)
pt_index(pa) == (pa % LargeBytes) \div PageBytes

\* AccessType
READ_WRITE == "RW"
READ_WRITE_EXECUTE == "RWX"
NO_ACCESS == "none"

\* The byte the inline detour puts at the hooked address; guest bytes are 0, 1.
DetourByte == 204
GuestByteValues == {0, 1}

VARIABLES
    mem,                 \* physical memory: address -> byte (guest pages, shadow pages in use)
    ept_pd,              \* primary EPT: large page address -> PD entry
    page_tables,         \* MemoryManager: guest page address -> its page table
    shadow_pages,        \* MemoryManager: guest page address -> shadow page address
    current_hook_index,  \* HookManager::current_hook_index
    ept_stale,           \* EPT-derived translations cached since the last INVEPT
    vpid_stale,          \* VPID-tagged translations cached since the last INVVPID
    panicked,            \* the hypervisor has panicked
    calls,               \* ept_hook_function calls made
    targets,             \* the guest pages those calls were for
    steps,               \* the steps the last ept_hook_function call went through, in order
    last                 \* the last ept_hook_function call: input, result, state before

VARIABLES
    feature_vmware,      \* the build has the cargo feature "vmware"
    guest_registers,     \* per core: Vm::guest_registers (rax, rdx, rcx, original_lstar, hook_lstar)
    hw_msr,              \* per core: the hardware MSRs
    msr_bitmap,          \* the shared MSR bitmap: the <<msr, access>> pairs that exit
    kernel_hook,         \* HookManager::kernel_hook: what set_kernel_base_and_size recorded
    injected_gp,         \* per core: a #GP(0) is pending injection at VM entry
    core_state,          \* per core: "running", or how its virtualization ended
    msr_ops,             \* guest RDMSR / WRMSR instructions executed
    lstar_first,         \* per core: the value of its first handled IA32_LSTAR write, or -1
    lstar_rewritten,     \* per core: the guest has written that value to IA32_LSTAR again
    lstar_written,       \* per core: the first value its guest wrote to IA32_LSTAR, or -1
    lstar_write_exits,   \* the exits IA32_LSTAR writes have caused, over all cores
    msr_last             \* the last RDMSR / WRMSR: input, exit, result, state before

msr_vars == <<feature_vmware, guest_registers, hw_msr, msr_bitmap, kernel_hook,
              injected_gp, core_state, msr_ops, lstar_first, lstar_rewritten,
              lstar_written, lstar_write_exits, msr_last>>

hook_vars == <<mem, ept_pd, page_tables, shadow_pages, current_hook_index,
               ept_stale, vpid_stale, panicked, calls, targets, steps,
               last>>

\* The program state ept_hook_function works on, as one record.
HookState == [mem |-> mem, ept_pd |-> ept_pd, page_tables |-> page_tables,
              shadow_pages |-> shadow_pages,
              current_hook_index |-> current_hook_index,
              ept_stale |-> ept_stale, vpid_stale |-> vpid_stale, steps |-> steps]

\* Results of a fallible step: the error (or "Ok") and the state it leaves.
Ok(s) == [err |-> "Ok", s |-> s]
Err(e, s) == [err |-> e, s |-> s]

\* --------------------------------------------------------- Memory Manager
\* (fixed-capacity tables keyed by guest page address)
is_page_split(s, guest_page_pa) == guest_page_pa \in DOMAIN s.page_tables
is_page_copied(s, guest_page_pa) == guest_page_pa \in DOMAIN s.shadow_pages
get_page_table(s, guest_page_pa) == guest_page_pa
get_shadow_page(s, guest_page_pa) == s.shadow_pages[guest_page_pa]

\* A pre-allocated page table before it is filled in.
ZeroedPt == [i \in 0 .. (PagesPerLarge - 1) |-> NO_ACCESS]

\* Returns the table of the page, taking one from the pool when the page has
\* none; fails beyond the fixed capacity.
get_or_create_page_table(s, guest_page_pa, index) ==
    IF guest_page_pa \in DOMAIN s.page_tables
    THEN Ok(s)
    ELSE IF index >= MAX_HOOKS \/ Cardinality(DOMAIN s.page_tables) >= MAX_HOOKS
         THEN Err("CapacityExceeded", s)
         ELSE Ok([s EXCEPT !.page_tables = @ @@ (guest_page_pa :> ZeroedPt)])

\* Returns the shadow page of the page, taking the next one of the pool when
\* the page has none; fails beyond the fixed capacity.
get_or_create_shadow_page(s, guest_page_pa, index) ==
    IF guest_page_pa \in DOMAIN s.shadow_pages
    THEN Ok(s)
    ELSE IF index >= MAX_HOOKS \/ Cardinality(DOMAIN s.shadow_pages) >= MAX_HOOKS
         THEN Err("CapacityExceeded", s)
         ELSE LET base == ShadowPoolBase + Cardinality(DOMAIN s.shadow_pages) * PageBytes
              IN  Ok([s EXCEPT !.shadow_pages = @ @@ (guest_page_pa :> base),
                               !.mem = @ @@ [a \in ShadowPageAddrs(base) |-> 0]])

\* -------------------------------------------------------------------- EPT
\* A PD entry is a 2 MB leaf with an access right, or points to the page
\* table of `pt` (the guest page whose table it is).
LargeLeaf(access) == [large |-> TRUE, access |-> access, pt |-> -1]
PdPointer(ptkey) == [large |-> FALSE, access |-> READ_WRITE_EXECUTE, pt |-> ptkey]

\* Ept::build_identity: every large page a leaf with full access.
build_identity(nlarge) ==
    [l \in {r * LargeBytes : r \in 0 .. (nlarge - 1)} |-> LargeLeaf(READ_WRITE_EXECUTE)]

\* What the design document leaves open when the large page is no longer a
\* leaf: the split is refused, the new table replaces the old one, or the
\* entry is left as it is.
SplitOutcomes == {"PageAlreadySplit", "Resplit", "Unchanged"}

\* Ept::split_2mb_to_4kb(guest_large_page_pa, pt)
split_2mb_to_4kb(s, guest_large_page_pa, ptkey, outcome) ==
    LET pde == s.ept_pd[guest_large_page_pa]
        filled(access) ==
            [s EXCEPT !.page_tables[ptkey] = [i \in 0 .. (PagesPerLarge - 1) |-> access],
                      !.ept_pd[guest_large_page_pa] = PdPointer(ptkey),
                      !.ept_stale = TRUE, !.vpid_stale = TRUE,
                      !.steps = Append(@, "split")]
    IN  IF pde.large
        THEN Ok(filled(pde.access))
        ELSE CASE outcome = "PageAlreadySplit" -> Err("PageAlreadySplit", s)
               [] outcome = "Resplit" -> Ok(filled(READ_WRITE_EXECUTE))
               [] OTHER -> Ok([s EXCEPT !.steps = Append(@, "split")])

\* Ept::modify_page_permissions(guest_pa, access_type, pt): sets the entry of
\* the page in the table it is handed.
modify_page_permissions(s, guest_page_pa, access_type, ptkey) ==
    Ok([s EXCEPT !.page_tables[ptkey][pt_index(guest_page_pa)] = access_type,
                 !.ept_stale = TRUE, !.vpid_stale = TRUE,
                 !.steps = Append(@, "permission")])

\* The access right the EPT walk gives a guest page.
EptAccess(s, guest_page_pa) ==
    LET pde == s.ept_pd[align_down_to_large_page(guest_page_pa)]
    IN  IF pde.large THEN pde.access
        ELSE s.page_tables[pde.pt][pt_index(guest_page_pa)]

\* The large page of the guest page is mapped through a page table.
EptIsSplit(s, guest_page_pa) ==
    ~s.ept_pd[align_down_to_large_page(guest_page_pa)].large

invept_all_contexts(s) == [s EXCEPT !.ept_stale = FALSE, !.steps = Append(@, "invept")]
invvpid_all_contexts(s) == [s EXCEPT !.vpid_stale = FALSE, !.steps = Append(@, "invvpid")]

\* ----------------------------------------------------------- Hook Manager
\* InlineHook::new(address, kind).detour64(): the redirect at the address.
detour64(s, address) ==
    [s EXCEPT !.mem[address] = DetourByte, !.steps = Append(@, "detour")]

\* HookManager::unsafe_copy_guest_to_shadow: copy_nonoverlapping of one page.
unsafe_copy_guest_to_shadow(s, guest_page_pa, host_shadow_page_pa) ==
    [s EXCEPT !.mem = [a \in DOMAIN s.mem |->
        IF a \in ShadowPageAddrs(host_shadow_page_pa)
        THEN s.mem[guest_page_pa + (a - host_shadow_page_pa)]
        ELSE s.mem[a]],
             !.steps = Append(@, "copy")]

\* calculate_function_offset_in_host_shadow_page forgetting the page offset.
calculate_function_offset_NoOffset(host_shadow_page_pa, guest_function_pa) ==
    host_shadow_page_pa

\* HookManager::calculate_function_offset_in_host_shadow_page
calculate_function_offset_in_host_shadow_page(host_shadow_page_pa, guest_function_pa) ==
    host_shadow_page_pa + base_page_offset(guest_function_pa)

\* The split step of ept_hook_function (lines 110-119).
split_step(s, guest_page_pa, guest_large_page_pa, split_outcome) ==
    IF ~is_page_split(s, guest_page_pa)
    THEN LET c == get_or_create_page_table(s, guest_page_pa, s.current_hook_index)
         IN  IF c.err # "Ok" THEN c
             ELSE split_2mb_to_4kb(c.s, guest_large_page_pa,
                                   get_page_table(c.s, guest_page_pa), split_outcome)
    ELSE Ok(s)

\* The copy step without the is_page_copied check: every call copies again.
copy_step_Always(s, guest_page_pa) ==
    LET c == get_or_create_shadow_page(s, guest_page_pa, s.current_hook_index)
    IN  IF c.err # "Ok" THEN c
        ELSE Ok(unsafe_copy_guest_to_shadow(c.s, guest_page_pa,
                                            get_shadow_page(c.s, guest_page_pa)))

\* The copy step copying the guest's bytes over a shadow page already made.
copy_step_Recopy(s, guest_page_pa) ==
    IF ~is_page_copied(s, guest_page_pa)
    THEN LET c == get_or_create_shadow_page(s, guest_page_pa, s.current_hook_index)
         IN  IF c.err # "Ok" THEN c
             ELSE Ok(unsafe_copy_guest_to_shadow(c.s, guest_page_pa,
                                                 get_shadow_page(c.s, guest_page_pa)))
    ELSE Ok(unsafe_copy_guest_to_shadow(s, guest_page_pa,
                                        get_shadow_page(s, guest_page_pa)))

\* The copy step of ept_hook_function (lines 121-129).
copy_step(s, guest_page_pa) ==
    IF ~is_page_copied(s, guest_page_pa)
    THEN LET c == get_or_create_shadow_page(s, guest_page_pa, s.current_hook_index)
         IN  IF c.err # "Ok" THEN c
             ELSE Ok(unsafe_copy_guest_to_shadow(c.s, guest_page_pa,
                                                 get_shadow_page(c.s, guest_page_pa)))
    ELSE Ok(s)

\* The hook step with the detour put into the guest's page, not the shadow.
hook_step_InGuestPage(s, guest_page_pa, guest_function_pa, ept_hook_type) ==
    IF ept_hook_type = "Function"
    THEN Ok(detour64(s, guest_function_pa))
    ELSE Err("panic", s)

\* The hook step with the page kind a silent no-op.
hook_step_PageNoOp(s, guest_page_pa, guest_function_pa, ept_hook_type) ==
    LET shadow_page_pa == get_shadow_page(s, guest_page_pa)
    IN  IF ept_hook_type = "Function"
        THEN Ok(detour64(s, calculate_function_offset_in_host_shadow_page(
                                shadow_page_pa, guest_function_pa)))
        ELSE Ok(s)

\* The hook step of ept_hook_function (lines 131-146).
hook_step(s, guest_page_pa, guest_function_pa, ept_hook_type) ==
    LET shadow_page_pa == get_shadow_page(s, guest_page_pa)
    IN  IF ept_hook_type = "Function"
        THEN Ok(detour64(s, calculate_function_offset_in_host_shadow_page(
                                shadow_page_pa, guest_function_pa)))
        ELSE Err("panic", s)

\* The permission step with the invalidations done before the change.
permission_step_InvalidateFirst(s, guest_page_pa) ==
    LET m == modify_page_permissions(invvpid_all_contexts(invept_all_contexts(s)),
                                     guest_page_pa, READ_WRITE,
                                     get_page_table(s, guest_page_pa))
    IN  IF m.err # "Ok" THEN m
        ELSE Ok([m.s EXCEPT !.current_hook_index = @ + 1,
                            !.steps = Append(@, "index")])

\* The permission step and the rest of ept_hook_function (lines 148-159).
permission_step(s, guest_page_pa) ==
    LET m == modify_page_permissions(s, guest_page_pa, READ_WRITE,
                                     get_page_table(s, guest_page_pa))
    IN  IF m.err # "Ok" THEN m
        ELSE Ok([invvpid_all_contexts(invept_all_contexts(m.s))
                    EXCEPT !.current_hook_index = @ + 1,
                           !.steps = Append(@, "index")])

\* HookManager::ept_hook_function: the result and the state it leaves.
ept_hook_function(s, guest_function_va, ept_hook_type, split_outcome) ==
    LET guest_function_pa == pa_from_va(guest_function_va)
        guest_page_pa == align_down_to_base_page(guest_function_pa)
        guest_large_page_pa == align_down_to_large_page(guest_function_pa)
        r1 == split_step(s, guest_page_pa, guest_large_page_pa, split_outcome)
        r2 == IF r1.err # "Ok" THEN r1 ELSE copy_step(r1.s, guest_page_pa)
        r3 == IF r2.err # "Ok" THEN r2
              ELSE hook_step(r2.s, guest_page_pa, guest_function_pa, ept_hook_type)
    IN  IF r3.err # "Ok" THEN r3 ELSE permission_step(r3.s, guest_page_pa)

EptHookTypes == {"Function", "Page"}

NoCall == [va |-> -1, kind |-> "none", result |-> "none", pre |-> <<>>]

\* One call of ept_hook_function, under the Hook Manager lock.
EptHookFunction(va, kind, split_outcome) ==
    /\ ~panicked
    /\ LET r == ept_hook_function([HookState EXCEPT !.steps = <<>>], va, kind,
                                  split_outcome)
       IN  /\ mem' = r.s.mem
           /\ steps' = r.s.steps
           /\ ept_pd' = r.s.ept_pd
           /\ page_tables' = r.s.page_tables
           /\ shadow_pages' = r.s.shadow_pages
           /\ current_hook_index' = r.s.current_hook_index
           /\ ept_stale' = r.s.ept_stale
           /\ vpid_stale' = r.s.vpid_stale
           /\ panicked' = (r.err = "panic")
           /\ last' = [va |-> va, kind |-> kind, result |-> r.err, pre |-> HookState]
    /\ calls' = calls + 1
    /\ targets' = targets \cup {align_down_to_base_page(pa_from_va(va))}

\* Guest memory as the firmware left it.
InitialMemory(nlarge) ==
    [a \in GuestAddrs(nlarge) |-> (a + (a \div PageBytes)) % 2]

\* HookManager::new and Vm::init over a guest memory of nlarge large pages.
InitHooks(nlarge) ==
    /\ mem = InitialMemory(nlarge)
    /\ ept_pd = build_identity(nlarge)
    /\ page_tables = <<>>
    /\ shadow_pages = <<>>
    /\ current_hook_index = 0
    /\ ept_stale = FALSE
    /\ vpid_stale = FALSE
    /\ panicked = FALSE
    /\ calls = 0
    /\ targets = {}
    /\ steps = <<>>
    /\ last = NoCall

\* ------------------------------------------------------------ MSR exits
\* Register values are scaled down: a register has 2 * HalfBits bits, its
\* low half standing for the low 32 bits of a 64-bit register (wide enough to
\* hold bit VMXON_OUTSIDE_SMX).
HalfBits == 3
MaxMsrOps == 3

Half == 2 ^ HalfBits
Word == Half * Half

\* msr.rs:51; x & MSR_MASK_LOW, x << 32 in u64, x >> 32
MSR_MASK_LOW == Half - 1
MaskLow(x) == x % (MSR_MASK_LOW + 1)
Shl32(x) == (x * Half) % Word
Shr32(x) == x \div Half

\* msr.rs:54-55, and u64::set_bit of bit_field
VMX_LOCK_BIT == 0
VMXON_OUTSIDE_SMX == 2
get_bit(x, bit) == (x \div (2 ^ bit)) % 2 = 1
set_bit(x, bit, value) ==
    IF get_bit(x, bit) = value THEN x
    ELSE IF value THEN x + 2 ^ bit ELSE x - 2 ^ bit

\* An MSR identifier is a u32, written <<high 16 bits, low 16 bits>>.
\* 0x00000000..=0x00001FFF, 0xC0000000..=0xC0001FFF, 0x40000000..=0x400000FF
MSR_VALID_RANGE_LOW == [first |-> <<0, 0>>, last |-> <<0, 8191>>]
MSR_VALID_RANGE_HIGH == [first |-> <<49152, 0>>, last |-> <<49152, 8191>>]
MSR_HYPERV_RANGE == [first |-> <<16384, 0>>, last |-> <<16384, 255>>]

\* RangeInclusive::contains on u32 values
IdLeq(a, b) == a[1] < b[1] \/ (a[1] = b[1] /\ a[2] <= b[2])
contains(range, msr_id) == IdLeq(range.first, msr_id) /\ IdLeq(msr_id, range.last)

\* x86::msr: 0x3A, 0xC0000082, 0xC0000101
IA32_FEATURE_CONTROL == <<0, 58>>
IA32_LSTAR == <<49152, 130>>
IA32_GS_BASE == <<49152, 257>>

\* The identifiers the guest uses: the special ones, 0x1FFF (an ordinary MSR),
\* and 0x2000, 0x40000000, 0x400000FF, 0xC0002000 around the range ends.
ValidMsrIds == {IA32_FEATURE_CONTROL, IA32_LSTAR, IA32_GS_BASE, <<0, 8191>>}
HyperVMsrIds == {<<16384, 0>>, <<16384, 255>>}
OtherMsrIds == {<<0, 8192>>, <<49152, 8192>>}
MsrIds == ValidMsrIds \cup HyperVMsrIds \cup OtherMsrIds

\* rcx as the guest loads it: `top` is what it holds above the low 32 bits,
\* which `as u32` drops.
RcxValues == [top : {0}, id : MsrIds] \cup [top : {1}, id : {IA32_LSTAR}]

\* The <<rax, rdx>> the guest loads before WRMSR: the values 0, 1 and all-ones,
\* the last with bits above the low half of both registers.
WrmsrInputs == {<<0, 0>>, <<1, 0>>, <<Word - 1, Word - 1>>}

\* What a control block holds as captured IA32_LSTAR: nothing, or a value.
CapturedLstarValues == {0, 1, Word - 1}

\* The calls of the handler in a run of the handler alone.
MaxHandlerCalls == 2

\* The cores of the runs with more than one core.
MsrCores == {0, 1}

\* The MSRs their guests access: the one the handler unhooks and two it does not.
SmpRcxValues == [top : {0}, id : {IA32_LSTAR, IA32_GS_BASE, IA32_FEATURE_CONTROL}]

\* What the hardware IA32_LSTAR of a core holds when the hypervisor starts.
BootLstarValues == {0, 1}

\* The per-core and shared state handle_msr_access works on, as one record.
MsrState == [guest_registers |-> guest_registers, hw_msr |-> hw_msr,
             msr_bitmap |-> msr_bitmap, kernel_hook |-> kernel_hook,
             injected_gp |-> injected_gp]

\* support::rdmsr / wrmsr on the core's hardware registers; an MSR the
\* processor does not have faults in the host.
HasMsr(s, c, msr_id) == msr_id \in DOMAIN s.hw_msr[c]
rdmsr(s, c, msr_id) == s.hw_msr[c][msr_id]
wrmsr(s, c, msr_id, value) == [s EXCEPT !.hw_msr[c][msr_id] = value]

\* EventInjection::vmentry_inject_gp(0)
vmentry_inject_gp(s, c) == [s EXCEPT !.injected_gp[c] = TRUE]

\* The bitmap left as it is.
modify_msr_interception_Kept(s, msr_id, access_type) == s

\* MsrBitmap::modify_msr_interception(msr, access, MsrOperation::Unhook)
modify_msr_interception_unhook(s, msr_id, access_type) ==
    [s EXCEPT !.msr_bitmap = @ \ {<<msr_id, access_type>>}]

\* HookManager::set_kernel_base_and_size(guest_va): finds the image the address
\* lies in and records its base and size, or fails.
set_kernel_base_and_size(s, guest_va, found) ==
    IF found THEN Ok([s EXCEPT !.kernel_hook = [found_from |-> guest_va]])
    ELSE Err("KernelNotFound", s)

\* The default validity check with `&&` between its two halves.
InvalidMsrDefault_And(msr_id) ==
    ~(contains(MSR_VALID_RANGE_LOW, msr_id) \/ contains(MSR_VALID_RANGE_HIGH, msr_id))
        /\ contains(MSR_HYPERV_RANGE, msr_id)

\* The validity check of the build (msr.rs:70-84): TRUE when #GP is injected.
InvalidMsrDefault(msr_id) ==
    ~(contains(MSR_VALID_RANGE_LOW, msr_id) \/ contains(MSR_VALID_RANGE_HIGH, msr_id))
        \/ contains(MSR_HYPERV_RANGE, msr_id)

InvalidMsrVmware(msr_id) ==
    /\ ~contains(MSR_VALID_RANGE_LOW, msr_id)
    /\ ~contains(MSR_VALID_RANGE_HIGH, msr_id)
    /\ contains(MSR_HYPERV_RANGE, msr_id)

InjectsGp(vmware, msr_id) ==
    IF vmware THEN InvalidMsrVmware(msr_id) ELSE InvalidMsrDefault(msr_id)

\* The read path with IA32_FEATURE_CONTROL passed through as it is.
msr_read_LiveFeatureControl(s, c, msr_id) ==
    LET known == msr_id = IA32_LSTAR \/ HasMsr(s, c, msr_id)
        result_value ==
            IF msr_id = IA32_LSTAR THEN s.guest_registers[c].original_lstar
            ELSE rdmsr(s, c, msr_id)
    IN  IF ~known THEN Err("HostFault", s)
        ELSE Ok([s EXCEPT !.guest_registers[c].rax = MaskLow(result_value),
                          !.guest_registers[c].rdx = Shr32(result_value)])

\* MsrAccessType::Read (msr.rs:90-115)
msr_read(s, c, msr_id) ==
    LET known == msr_id = IA32_LSTAR \/ HasMsr(s, c, msr_id)
        result_value ==
            IF msr_id = IA32_LSTAR THEN s.guest_registers[c].original_lstar
            ELSE IF msr_id = IA32_FEATURE_CONTROL
                 THEN set_bit(set_bit(rdmsr(s, c, msr_id), VMX_LOCK_BIT, TRUE),
                              VMXON_OUTSIDE_SMX, FALSE)
                 ELSE rdmsr(s, c, msr_id)
    IN  IF ~known THEN Err("HostFault", s)
        ELSE Ok([s EXCEPT !.guest_registers[c].rax = MaskLow(result_value),
                          !.guest_registers[c].rdx = Shr32(result_value)])

\* The IA32_LSTAR branch without the capture of the original value.
lstar_write_NoCapture(s, c, msr_id, msr_value, found) ==
    LET unhooked == modify_msr_interception_unhook(s, IA32_LSTAR, "Write")
        k == set_kernel_base_and_size(unhooked, msr_value, found)
        regs == k.s.guest_registers[c]
        value_to_write == IF regs.hook_lstar # 0 THEN regs.hook_lstar
                          ELSE regs.original_lstar
    IN  IF k.err # "Ok" THEN k
        ELSE IF msr_value = regs.original_lstar
             THEN Ok(wrmsr(k.s, c, msr_id, value_to_write))
             ELSE Ok(k.s)

\* The IA32_LSTAR branch with the hook value left unset at the capture.
lstar_write_HookNotPrimed(s, c, msr_id, msr_value, found) ==
    LET unhooked == modify_msr_interception_unhook(s, IA32_LSTAR, "Write")
        k == set_kernel_base_and_size(unhooked, msr_value, found)
        captured ==
            IF k.s.guest_registers[c].original_lstar = 0
            THEN [k.s EXCEPT !.guest_registers[c].original_lstar = msr_value]
            ELSE k.s
        regs == captured.guest_registers[c]
        value_to_write == IF regs.hook_lstar # 0 THEN regs.hook_lstar
                          ELSE regs.original_lstar
    IN  IF k.err # "Ok" THEN k
        ELSE IF msr_value = regs.original_lstar
             THEN Ok(wrmsr(captured, c, msr_id, value_to_write))
             ELSE Ok(captured)

\* The IA32_LSTAR branch of MsrAccessType::Write (msr.rs:118-157)
lstar_write(s, c, msr_id, msr_value, found) ==
    LET unhooked == modify_msr_interception_unhook(s, IA32_LSTAR, "Write")
        k == set_kernel_base_and_size(unhooked, msr_value, found)
        captured ==
            IF k.s.guest_registers[c].original_lstar = 0
            THEN [k.s EXCEPT !.guest_registers[c].original_lstar = msr_value,
                             !.guest_registers[c].hook_lstar = msr_value]
            ELSE k.s
        regs == captured.guest_registers[c]
        value_to_write == IF regs.hook_lstar # 0 THEN regs.hook_lstar
                          ELSE regs.original_lstar
    IN  IF k.err # "Ok" THEN k
        ELSE IF msr_value = regs.original_lstar
             THEN Ok(wrmsr(captured, c, msr_id, value_to_write))
             ELSE Ok(captured)

\* MsrAccessType::Write (msr.rs:117-181)
msr_write(s, c, msr_id, msr_value, found) ==
    IF msr_id = IA32_LSTAR THEN lstar_write(s, c, msr_id, msr_value, found)
    ELSE IF ~HasMsr(s, c, msr_id) THEN Err("HostFault", s)
    ELSE IF msr_id = IA32_GS_BASE THEN Ok(wrmsr(s, c, msr_id, msr_value))
    ELSE Ok(wrmsr(s, c, msr_id, msr_value))

\* The handler returning IncrementRIP after the injection of #GP as well.
handle_msr_access_AlwaysIncrement(s, c, vmware, access_type, found) ==
    LET regs == s.guest_registers[c]
        msr_id == regs.rcx.id
        msr_value == Shl32(regs.rdx) + MaskLow(regs.rax)
    IN  IF InjectsGp(vmware, msr_id)
        THEN [err |-> "Ok", exit |-> "IncrementRIP", s |-> vmentry_inject_gp(s, c)]
        ELSE LET r == IF access_type = "Read" THEN msr_read(s, c, msr_id)
                      ELSE msr_write(s, c, msr_id, msr_value, found)
             IN  IF r.err # "Ok" THEN [err |-> r.err, exit |-> "none", s |-> r.s]
                 ELSE [err |-> "Ok", exit |-> "IncrementRIP", s |-> r.s]

\* handle_msr_access(vm, access_type): the result and the state it leaves.
\* `found` is whether set_kernel_base_and_size finds the kernel image.
handle_msr_access(s, c, vmware, access_type, found) ==
    LET regs == s.guest_registers[c]
        msr_id == regs.rcx.id
        msr_value == Shl32(regs.rdx) + MaskLow(regs.rax)
    IN  IF InjectsGp(vmware, msr_id)
        THEN [err |-> "Ok", exit |-> "Continue", s |-> vmentry_inject_gp(s, c)]
        ELSE LET r == IF access_type = "Read" THEN msr_read(s, c, msr_id)
                      ELSE msr_write(s, c, msr_id, msr_value, found)
             IN  IF r.err # "Ok" THEN [err |-> r.err, exit |-> "none", s |-> r.s]
                 ELSE [err |-> "Ok", exit |-> "IncrementRIP", s |-> r.s]


\* The MSR bitmap covers 0x0..0x1FFF and 0xC0000000..0xC0001FFF; RDMSR and
\* WRMSR of any other identifier always exit.
Exits(s, msr_id, access_type) ==
    \/ ~(contains(MSR_VALID_RANGE_LOW, msr_id) \/ contains(MSR_VALID_RANGE_HIGH, msr_id))
    \/ <<msr_id, access_type>> \in s.msr_bitmap

\* RDMSR / WRMSR executed by the processor without an exit.
direct_access(s, c, access_type) ==
    LET regs == s.guest_registers[c]
        value == s.hw_msr[c][regs.rcx.id]
    IN  IF access_type = "Read"
        THEN [s EXCEPT !.guest_registers[c].rax = MaskLow(value),
                       !.guest_registers[c].rdx = Shr32(value)]
        ELSE [s EXCEPT !.hw_msr[c][regs.rcx.id] = Shl32(regs.rdx) + MaskLow(regs.rax)]

NoMsr == [core |-> -1, access |-> "none", exited |-> FALSE, err |-> "none",
          exit |-> "none", pre |-> <<>>]

\* Core c's RDMSR or WRMSR with the registers `loaded` (a pending #GP has been
\* delivered by then): handle_msr_access runs if the access exits, or, with
\* `called`, whatever the bitmap says.
MsrAccess(c, loaded, access_type, found, called) ==
    /\ core_state[c] = "running"
    /\ LET s0 == [MsrState EXCEPT !.guest_registers[c] = loaded,
                                  !.injected_gp[c] = FALSE]
           exited == called \/ Exits(s0, loaded.rcx.id, access_type)
           h == handle_msr_access(s0, c, feature_vmware, access_type, found)
           s1 == IF exited THEN h.s ELSE direct_access(s0, c, access_type)
       IN  /\ guest_registers' = s1.guest_registers
           /\ hw_msr' = s1.hw_msr
           /\ msr_bitmap' = s1.msr_bitmap
           /\ kernel_hook' = s1.kernel_hook
           /\ injected_gp' = s1.injected_gp
           /\ core_state' = IF exited /\ h.err # "Ok"
                            THEN [core_state EXCEPT ![c] = h.err]
                            ELSE core_state
           /\ msr_last' = [core |-> c, access |-> access_type, exited |-> exited,
                           err |-> IF exited THEN h.err ELSE "Ok",
                           exit |-> IF exited THEN h.exit ELSE "none",
                           pre |-> s0]
           /\ LET lstar_write_done ==
                       /\ access_type = "Write"
                       /\ loaded.rcx.id = IA32_LSTAR
                       /\ (exited => h.err = "Ok")
                   value == Shl32(loaded.rdx) + MaskLow(loaded.rax)
              IN  /\ lstar_first' =
                        IF lstar_write_done /\ exited /\ lstar_first[c] = -1
                        THEN [lstar_first EXCEPT ![c] = value] ELSE lstar_first
                  /\ lstar_rewritten' =
                        IF lstar_write_done /\ lstar_first[c] = value
                        THEN [lstar_rewritten EXCEPT ![c] = TRUE] ELSE lstar_rewritten
                  /\ lstar_written' =
                        IF lstar_write_done /\ lstar_written[c] = -1
                        THEN [lstar_written EXCEPT ![c] = value] ELSE lstar_written
           /\ lstar_write_exits' =
                 IF exited /\ access_type = "Write" /\ loaded.rcx.id = IA32_LSTAR
                 THEN lstar_write_exits + 1 ELSE lstar_write_exits
    /\ msr_ops' = msr_ops + 1
    /\ UNCHANGED feature_vmware

\* The guest of core c executes RDMSR or WRMSR; an exit runs handle_msr_access.
GuestMsrAccess(c, loaded, access_type, found) ==
    MsrAccess(c, loaded, access_type, found, FALSE)

\* handle_msr_access called for core c's control block as the caller holds it.
HandleMsrAccessCall(c) ==
    \E rcx \in RcxValues, in \in WrmsrInputs, access_type \in {"Read", "Write"} :
        \E found \in IF access_type = "Write" /\ rcx.id = IA32_LSTAR
                      THEN BOOLEAN ELSE {TRUE} :
            MsrAccess(c, [guest_registers[c] EXCEPT !.rcx = rcx, !.rax = in[1],
                                                    !.rdx = in[2]],
                      access_type, found, TRUE)

\* Whether set_kernel_base_and_size is reached, so that its result matters.
FoundChoices(c, msr_id, access_type) ==
    IF access_type = "Write" /\ msr_id = IA32_LSTAR /\ <<msr_id, access_type>> \in msr_bitmap
    THEN BOOLEAN ELSE {TRUE}

GuestRdmsrOf(c, rcx_values) ==
    \E rcx \in rcx_values :
        GuestMsrAccess(c, [guest_registers[c] EXCEPT !.rcx = rcx], "Read", TRUE)

GuestWrmsrOf(c, rcx_values) ==
    \E rcx \in rcx_values, in \in WrmsrInputs :
        \E found \in FoundChoices(c, rcx.id, "Write") :
            GuestMsrAccess(c, [guest_registers[c] EXCEPT !.rcx = rcx, !.rax = in[1],
                                                         !.rdx = in[2]], "Write", found)

GuestRdmsr(c) == GuestRdmsrOf(c, RcxValues)

GuestWrmsr(c) == GuestWrmsrOf(c, RcxValues)

\* The control blocks of `cores` after Vm::init, the MSR bitmap intercepting
\* every access it covers, in a build of `builds`.
InitMsr(cores, builds) ==
    /\ feature_vmware \in builds
    /\ guest_registers = [c \in cores |->
          [rax |-> 0, rdx |-> 0, rcx |-> [top |-> 0, id |-> <<0, 0>>],
           original_lstar |-> 0, hook_lstar |-> 0]]
    /\ \E boot_lstar \in BootLstarValues :
          hw_msr = [c \in cores |-> [id \in ValidMsrIds |->
              IF id = IA32_FEATURE_CONTROL
              THEN 2 ^ VMX_LOCK_BIT + 2 ^ VMXON_OUTSIDE_SMX
              ELSE IF id = IA32_LSTAR THEN boot_lstar ELSE 0]]
    /\ msr_bitmap = ValidMsrIds \X {"Read", "Write"}
    /\ kernel_hook = [found_from |-> -1]
    /\ injected_gp = [c \in cores |-> FALSE]
    /\ core_state = [c \in cores |-> "running"]
    /\ msr_ops = 0
    /\ lstar_first = [c \in cores |-> -1]
    /\ lstar_rewritten = [c \in cores |-> FALSE]
    /\ lstar_written = [c \in cores |-> -1]
    /\ lstar_write_exits = 0
    /\ msr_last = NoMsr

MsrIdle == InitMsr({0}, {FALSE}) /\ hw_msr[0][IA32_LSTAR] = 0

\* --------------------------------------------------------- VM lifecycle
VARIABLES
    vm_pc,               \* per core: where the core's start-up and exit loop stands
    has_launched,        \* per core: Vm::has_launched
    vmx_on,              \* per core: the processor is in VMX operation
    vmcs_launch_state,   \* per core: "none", or the launch state of the current VMCS
    hook_manager_lock,   \* SHARED_HOOK_MANAGER: the core holding it, or NoCore
    descriptor_manager_lock, \* SHARED_DESCRIPTOR_MANAGER: the core holding it, or NoCore
    vm_results,          \* per core: what init, activate_vmxon, activate_vmcs returned
    vm_runs,             \* per core: run() calls made
    vm_entries,          \* per core: guest entries that succeeded
    vm_attempts,         \* per core: the entry attempts of its run() calls, in order
    vmcs_ops,            \* per core: the VMCS operations executed so far
    vmcs_op_outside_vmx, \* per core: a VMCS operation was executed outside VMX operation
    vm_run_last          \* per core: flags, error code and result of the last post-entry check

vm_vars == <<vm_pc, has_launched, vmx_on, vmcs_launch_state, hook_manager_lock,
             descriptor_manager_lock, vm_results, vm_runs, vm_entries, vm_attempts, vmcs_ops,
             vmcs_op_outside_vmx, vm_run_last>>

MaxRuns == 2

VmCores == {0, 1}
NoCore == -1

\* RFlags bits launch_vm can return: FLAGS_ZF, FLAGS_CF and one other bit.
RFlagsValues == SUBSET {"ZF", "CF", "PF"}
EntryFailedFlags == {f \in RFlagsValues : "ZF" \in f \/ "CF" \in f}
EntryDoneFlags == {f \in RFlagsValues : "ZF" \notin f /\ "CF" \notin f}

\* VmInstructionError::from_u32: the codes of the SDM's table of VM-instruction
\* error numbers are known; 7 is one of them, 0 and 29 are not.
InstructionErrorCodes == {0, 7, 29}
VmInstructionError_from_u32(code) == code = 7

\* The post-entry check with the carry flag tested first.
vm_succeed_CarryFirst(flags, instruction_error) ==
    IF "CF" \in flags THEN "VMFailToLaunch"
    ELSE IF "ZF" \in flags
         THEN IF VmInstructionError_from_u32(instruction_error)
              THEN "VmInstructionError" ELSE "UnknownVMInstructionError"
         ELSE "Ok"

\* Vm::vm_succeed (vm.rs:307-326)
vm_succeed(flags, instruction_error) ==
    IF "ZF" \in flags
    THEN IF VmInstructionError_from_u32(instruction_error)
         THEN "VmInstructionError" ELSE "UnknownVMInstructionError"
    ELSE IF "CF" \in flags THEN "VMFailToLaunch"
    ELSE "Ok"

\* Vm::init without the clearing of the launch state.
init_KeepLaunchState(launched, outcome) ==
    [err |-> outcome, has_launched |-> launched]

\* Vm::init (vm.rs:112-154): build_identity and the EPTP fail before the launch
\* state is cleared, the CPUID feature query after it.
init(launched, outcome) ==
    [err |-> outcome,
     has_launched |-> IF outcome = "EptError" THEN launched ELSE FALSE]
InitOutcomes == {"Ok", "EptError", "CPUUnsupported"}

\* Vm::run with the launch state set only once the exit reason is decoded.
run_LaunchedAfterDecode(launched, flags, instruction_error, reason_known) ==
    LET r == vm_succeed(flags, instruction_error)
    IN  IF r # "Ok" THEN [err |-> r, has_launched |-> launched]
        ELSE IF ~reason_known
             THEN [err |-> "UnknownVMExitReason", has_launched |-> launched]
             ELSE [err |-> "Ok", has_launched |-> TRUE]

\* Vm::run (vm.rs:272-293) from the return of launch_vm on: the post-entry
\* check, the launch state, the decoding of the exit reason.
run(launched, flags, instruction_error, reason_known) ==
    LET r == vm_succeed(flags, instruction_error)
    IN  IF r # "Ok" THEN [err |-> r, has_launched |-> launched]
        ELSE IF ~reason_known
             THEN [err |-> "UnknownVMExitReason", has_launched |-> TRUE]
             ELSE [err |-> "Ok", has_launched |-> TRUE]

\* launch_vm entering with VMLAUNCH whatever it is passed.
launch_vm_AlwaysLaunch(launched) == "VMLAUNCH"

\* launch_vm(registers, has_launched): VMLAUNCH when has_launched is 0,
\* VMRESUME otherwise; VMLAUNCH needs a clear VMCS, VMRESUME a launched one.
launch_vm(launched) == IF launched THEN "VMRESUME" ELSE "VMLAUNCH"

EntryPossible(launched, launch_state) ==
    launch_state = (IF launch_vm(launched) = "VMRESUME" THEN "launched" ELSE "clear")

\* Vm::activate_vmxon returning Ok without the VMXON instruction.
activate_vmxon_NoVmxon(on, feature_control_ok, vmxon_ok) ==
    IF ~feature_control_ok THEN [err |-> "FeatureControlError", vmx_on |-> on]
    ELSE [err |-> "Ok", vmx_on |-> on]

\* Vm::activate_vmxon (vm.rs:165-175) with setup_vmxon (vm.rs:186-204):
\* adjust_feature_control_msr can fail, and then VMXON is not executed; a
\* VMXON instruction that fails ends the core's start-up in support::vmxon.
activate_vmxon(on, feature_control_ok, vmxon_ok) ==
    IF ~feature_control_ok THEN [err |-> "FeatureControlError", vmx_on |-> on]
    ELSE IF ~vmxon_ok THEN [err |-> "VmxonFailed", vmx_on |-> on]
    ELSE [err |-> "Ok", vmx_on |-> TRUE]

\* The two locks, and the release of what a core holds when the guards of a
\* function go out of scope.
Locks == [hook_manager |-> hook_manager_lock,
          descriptor_manager |-> descriptor_manager_lock]
drop_hook_manager(locks, c) ==
    IF locks.hook_manager = c THEN [locks EXCEPT !.hook_manager = NoCore] ELSE locks
drop_descriptor_manager(locks, c) ==
    IF locks.descriptor_manager = c
    THEN [locks EXCEPT !.descriptor_manager = NoCore] ELSE locks

\* setup_vmcs keeping the hook manager locked when it returns an error.
setup_vmcs_return_KeepOnError(locks, c, outcome) ==
    IF outcome = "Ok"
    THEN drop_descriptor_manager(drop_hook_manager(locks, c), c)
    ELSE drop_descriptor_manager(locks, c)

\* Vm::setup_vmcs (vm.rs:252-261): the return, by `?` or at the end, drops
\* descriptor_manager and hook_manager.
setup_vmcs_return(locks, c, outcome) ==
    drop_descriptor_manager(drop_hook_manager(locks, c), c)
SetupVmcsOutcomes == {"Ok", "Pml4Error", "HostStateError", "ControlFieldError"}

\* handle_msr_access, write of IA32_LSTAR (msr.rs:124-157): hook_manager is
\* dropped at the `?` of set_kernel_base_and_size or at the end of the branch.
lstar_write_return(locks, c, found) == drop_hook_manager(locks, c)

NoRun == [flags |-> {}, instruction_error |-> 0, check |-> "none", result |-> "none"]

VmcsOp(c, ops) ==
    /\ vmcs_ops' = [vmcs_ops EXCEPT ![c] = @ \cup ops]
    /\ vmcs_op_outside_vmx' = [vmcs_op_outside_vmx EXCEPT ![c] = @ \/ ~vmx_on[c]]

\* The core's start-up calls vm.init(&guest_registers).
VmInitCall(c) ==
    /\ vm_pc[c] = "boot"
    /\ \E outcome \in InitOutcomes :
          LET r == init(has_launched[c], outcome)
          IN  /\ has_launched' = [has_launched EXCEPT ![c] = r.has_launched]
              /\ vm_results' = [vm_results EXCEPT ![c].init = r.err]
              /\ vm_pc' = [vm_pc EXCEPT ![c] = IF r.err = "Ok" THEN "inited" ELSE "failed"]
    /\ UNCHANGED <<vmx_on, vmcs_launch_state, hook_manager_lock, descriptor_manager_lock,
                   vm_runs, vm_entries, vm_attempts, vmcs_ops, vmcs_op_outside_vmx, vm_run_last>>

\* ... then vm.activate_vmxon()
ActivateVmxon(c) ==
    /\ vm_pc[c] = "inited"
    /\ \E feature_control_ok \in BOOLEAN, vmxon_ok \in BOOLEAN :
          LET r == activate_vmxon(vmx_on[c], feature_control_ok, vmxon_ok)
          IN  /\ vmx_on' = [vmx_on EXCEPT ![c] = r.vmx_on]
              /\ vm_results' = [vm_results EXCEPT ![c].vmxon = r.err]
              /\ vm_pc' = [vm_pc EXCEPT ![c] = IF r.err = "Ok" THEN "vmxon" ELSE "failed"]
    /\ UNCHANGED <<has_launched, vmcs_launch_state, hook_manager_lock,
                   descriptor_manager_lock, vm_runs, vm_entries, vm_attempts, vmcs_ops,
                   vmcs_op_outside_vmx, vm_run_last>>

\* ... then vm.activate_vmcs(): vmclear and vmptrld (vm.rs:214-221)
ActivateVmcs(c) ==
    /\ vm_pc[c] = "vmxon"
    /\ vm_results' = [vm_results EXCEPT ![c].vmcs = "called"]
    /\ vmcs_launch_state' = [vmcs_launch_state EXCEPT ![c] = "clear"]
    /\ VmcsOp(c, {"vmclear", "vmptrld"})
    /\ vm_pc' = [vm_pc EXCEPT ![c] = "setup_vmcs"]
    /\ UNCHANGED <<has_launched, vmx_on, hook_manager_lock, descriptor_manager_lock,
                   vm_runs, vm_entries, vm_attempts, vm_run_last>>

\* setup_vmcs: SHARED_HOOK_MANAGER.lock() (vm.rs:242)
SetupVmcsLockHookManager(c) ==
    /\ vm_pc[c] = "setup_vmcs"
    /\ hook_manager_lock = NoCore
    /\ hook_manager_lock' = c
    /\ vm_pc' = [vm_pc EXCEPT ![c] = "setup_vmcs_hm"]
    /\ UNCHANGED <<has_launched, vmx_on, vmcs_launch_state, descriptor_manager_lock,
                   vm_results, vm_runs, vm_entries, vm_attempts, vmcs_ops, vmcs_op_outside_vmx,
                   vm_run_last>>

\* setup_vmcs: SHARED_DESCRIPTOR_MANAGER.lock() (vm.rs:247)
SetupVmcsLockDescriptorManager(c) ==
    /\ vm_pc[c] = "setup_vmcs_hm"
    /\ descriptor_manager_lock = NoCore
    /\ descriptor_manager_lock' = c
    /\ vm_pc' = [vm_pc EXCEPT ![c] = "setup_vmcs_dm"]
    /\ UNCHANGED <<has_launched, vmx_on, vmcs_launch_state, hook_manager_lock,
                   vm_results, vm_runs, vm_entries, vm_attempts, vmcs_ops, vmcs_op_outside_vmx,
                   vm_run_last>>

\* setup_vmcs: the population of the fields and the return (vm.rs:252-261),
\* with it the return of activate_vmcs.
SetupVmcsPopulate(c) ==
    /\ vm_pc[c] = "setup_vmcs_dm"
    /\ \E outcome \in SetupVmcsOutcomes :
          LET locks == setup_vmcs_return(Locks, c, outcome)
          IN  /\ hook_manager_lock' = locks.hook_manager
              /\ descriptor_manager_lock' = locks.descriptor_manager
              /\ vm_results' = [vm_results EXCEPT ![c].vmcs = outcome]
              /\ IF outcome = "Pml4Error"
                 THEN UNCHANGED <<vmcs_ops, vmcs_op_outside_vmx>>
                 ELSE VmcsOp(c, {"vmwrite"})
              /\ vm_pc' = [vm_pc EXCEPT ![c] = IF outcome = "Ok" THEN "ready" ELSE "failed"]
    /\ UNCHANGED <<has_launched, vmx_on, vmcs_launch_state, vm_runs, vm_entries, vm_attempts,
                   vm_run_last>>

\* ... then the exit loop calls vm.run(): launch_vm enters the guest, or the
\* entry fails and run returns the error of the post-entry check.
RunEnter(c) ==
    /\ vm_pc[c] = "ready"
    /\ vm_runs[c] < MaxRuns
    /\ vm_runs' = [vm_runs EXCEPT ![c] = @ + 1]
    /\ VmcsOp(c, {"entry"})
    /\ \/ /\ EntryPossible(has_launched[c], vmcs_launch_state[c])
          /\ vmcs_launch_state' = [vmcs_launch_state EXCEPT ![c] = "launched"]
          /\ vm_entries' = [vm_entries EXCEPT ![c] = @ + 1]
          /\ vm_attempts' = [vm_attempts EXCEPT ![c] =
                Append(@, [instruction |-> launch_vm(has_launched[c]),
                           entered |-> TRUE])]
          /\ vm_pc' = [vm_pc EXCEPT ![c] = "in_guest"]
          /\ UNCHANGED <<has_launched, vm_run_last>>
       \/ \E flags \in EntryFailedFlags, code \in InstructionErrorCodes :
            LET r == run(has_launched[c], flags, code, TRUE)
            IN  /\ has_launched' = [has_launched EXCEPT ![c] = r.has_launched]
                /\ vm_run_last' = [vm_run_last EXCEPT ![c] =
                      [flags |-> flags, instruction_error |-> code,
                       check |-> vm_succeed(flags, code), result |-> r.err]]
                /\ vm_attempts' = [vm_attempts EXCEPT ![c] =
                      Append(@, [instruction |-> launch_vm(has_launched[c]),
                                 entered |-> FALSE])]
                /\ vm_pc' = [vm_pc EXCEPT ![c] = IF r.err = "Ok" THEN "ready" ELSE "failed"]
                /\ UNCHANGED <<vmcs_launch_state, vm_entries>>
    /\ UNCHANGED <<vmx_on, hook_manager_lock, descriptor_manager_lock, vm_results>>

\* The caller calls vm.run() again on a control block whose run() returned an
\* error.
RunAgain(c) ==
    /\ vm_pc[c] = "failed"
    /\ vm_run_last[c].result \notin {"none", "Ok"}
    /\ vm_runs[c] < MaxRuns
    /\ vm_pc' = [vm_pc EXCEPT ![c] = "ready"]
    /\ UNCHANGED <<has_launched, vmx_on, vmcs_launch_state, hook_manager_lock,
                   descriptor_manager_lock, vm_results, vm_runs, vm_entries, vm_attempts,
                   vmcs_ops, vmcs_op_outside_vmx, vm_run_last>>

ExitReasons == {"MsrWriteLstar", "Other", "Unknown"}

\* A VM exit: launch_vm returns, run does the post-entry check, sets the
\* launch state and decodes the exit reason; the exit loop dispatches on it.
GuestExit(c) ==
    /\ vm_pc[c] = "in_guest"
    /\ \E flags \in EntryDoneFlags, reason \in ExitReasons :
          LET r == run(has_launched[c], flags, 0, reason # "Unknown")
          IN  /\ has_launched' = [has_launched EXCEPT ![c] = r.has_launched]
              /\ vm_run_last' = [vm_run_last EXCEPT ![c] =
                    [flags |-> flags, instruction_error |-> 0,
                     check |-> vm_succeed(flags, 0), result |-> r.err]]
              /\ vm_pc' = [vm_pc EXCEPT ![c] =
                    IF r.err # "Ok" THEN "failed"
                    ELSE IF reason = "MsrWriteLstar" THEN "lstar_write" ELSE "ready"]
    /\ UNCHANGED <<vmx_on, vmcs_launch_state, hook_manager_lock, descriptor_manager_lock,
                   vm_results, vm_runs, vm_entries, vm_attempts, vmcs_ops, vmcs_op_outside_vmx>>

\* handle_msr_access, write of IA32_LSTAR: SHARED_HOOK_MANAGER.lock() (msr.rs:124)
LstarWriteLockHookManager(c) ==
    /\ vm_pc[c] = "lstar_write"
    /\ hook_manager_lock = NoCore
    /\ hook_manager_lock' = c
    /\ vm_pc' = [vm_pc EXCEPT ![c] = "lstar_write_hm"]
    /\ UNCHANGED <<has_launched, vmx_on, vmcs_launch_state, descriptor_manager_lock,
                   vm_results, vm_runs, vm_entries, vm_attempts, vmcs_ops, vmcs_op_outside_vmx,
                   vm_run_last>>

\* ... the rest of the branch and the return of the handler (msr.rs:126-157)
LstarWriteReturn(c) ==
    /\ vm_pc[c] = "lstar_write_hm"
    /\ \E found \in BOOLEAN :
          LET locks == lstar_write_return(Locks, c, found)
          IN  /\ hook_manager_lock' = locks.hook_manager
              /\ descriptor_manager_lock' = locks.descriptor_manager
              /\ vm_pc' = [vm_pc EXCEPT ![c] = IF found THEN "ready" ELSE "failed"]
    /\ UNCHANGED <<has_launched, vmx_on, vmcs_launch_state, vm_results, vm_runs,
                   vm_entries, vm_attempts, vmcs_ops, vmcs_op_outside_vmx, vm_run_last>>

\* The control blocks of `cores` before Vm::init: has_launched is whatever the
\* memory of the block holds.
InitVm(cores, launch_values) ==
    /\ vm_pc = [c \in cores |-> "boot"]
    /\ has_launched \in [cores -> launch_values]
    /\ vmx_on = [c \in cores |-> FALSE]
    /\ vmcs_launch_state = [c \in cores |-> "none"]
    /\ hook_manager_lock = NoCore
    /\ descriptor_manager_lock = NoCore
    /\ vm_results = [c \in cores |-> [init |-> "none", vmxon |-> "none", vmcs |-> "none"]]
    /\ vm_runs = [c \in cores |-> 0]
    /\ vm_entries = [c \in cores |-> 0]
    /\ vm_attempts = [c \in cores |-> <<>>]
    /\ vmcs_ops = [c \in cores |-> {}]
    /\ vmcs_op_outside_vmx = [c \in cores |-> FALSE]
    /\ vm_run_last = [c \in cores |-> NoRun]

VmIdle == InitVm({0}, {FALSE})

\* ------------------------------------------------- start on all processors
VARIABLES
    enabled,             \* processor_count.enabled
    boot_pc,             \* start_hypervisor_on_all_processors: "start", "running", "returned"
    pending,             \* the processors start_hypervisor is still to be run on
    sh_pc,               \* per processor: where its start_hypervisor stands
    sh_registers,        \* per processor: the GuestRegisters of start_hypervisor (rax)
    start_count,         \* per processor: calls of start_hypervisor
    virtualize_count,    \* per processor: calls of virtualize_system
    passes               \* per processor: the markers capture_registers has returned

boot_vars == <<enabled, boot_pc, pending, sh_pc, sh_registers, start_count,
               virtualize_count, passes>>

MaxProcessors == 4

\* Processor 0 is the bootstrap processor, the one the driver runs on.
BSP == 0
Processors(n) == 0 .. (n - 1)

\* What rax and rbx (standing for the other registers) hold when
\* capture_registers records the registers.
CapturedRaxValues == {0, 1, 2}
CapturedRbxValues == {0, 1, 2}

\* start_hypervisor_on_all_processors (processor.rs:42-56): the processors
\* start_hypervisor is run on. MpServices::startup_all_aps runs the procedure
\* on every enabled application processor, not on the caller's processor.
processors_started(n) ==
    IF n = 1 THEN {BSP} ELSE Processors(n) \ {BSP}

\* start_hypervisor without the assignment of rax.
start_hypervisor_KeepRax(captured, is_virtualized) ==
    [guest_registers |-> captured, virtualize |-> ~is_virtualized]

\* start_hypervisor (processor.rs:78-97) from the return of capture_registers
\* on: the registers it holds and whether it calls virtualize_system.
start_hypervisor(captured, is_virtualized) ==
    [guest_registers |-> [captured EXCEPT !.rax = 1],
     virtualize |-> ~is_virtualized]

\* One pass of processor p through the capture point with the given marker.
CapturePass(p, captured, is_virtualized) ==
    LET r == start_hypervisor(captured, is_virtualized)
    IN  /\ sh_registers' = [sh_registers EXCEPT ![p] = r.guest_registers]
        /\ passes' = [passes EXCEPT ![p] = Append(@, is_virtualized)]
        /\ virtualize_count' = [virtualize_count EXCEPT ![p] =
                                    IF r.virtualize THEN @ + 1 ELSE @]
        /\ sh_pc' = [sh_pc EXCEPT ![p] = IF r.virtualize THEN "virtualizing" ELSE "returned"]

\* start_hypervisor_on_all_processors up to the branch on the processor count
BootDispatch ==
    /\ boot_pc = "start"
    /\ boot_pc' = "running"
    /\ pending' = processors_started(enabled)
    /\ UNCHANGED <<enabled, sh_pc, sh_registers, start_count, virtualize_count, passes>>

\* start_hypervisor is called on the next processor (one at a time:
\* single_thread is true): capture_registers returns false.
StartHypervisorCall(p) ==
    /\ boot_pc = "running"
    /\ p \in pending
    /\ \A q \in pending : p <= q
    /\ \A q \in DOMAIN sh_pc : sh_pc[q] \in {"idle", "returned"}
    /\ pending' = pending \ {p}
    /\ start_count' = [start_count EXCEPT ![p] = @ + 1]
    /\ \E rax \in CapturedRaxValues, rbx \in CapturedRbxValues :
          CapturePass(p, [rax |-> rax, rbx |-> rbx], FALSE)
    /\ UNCHANGED <<enabled, boot_pc>>

\* virtualize_system enters the guest, which starts at the capture point with
\* the registers it was given: capture_registers returns the guest's rax as
\* the marker. Or it fails, and the processor stops.
VirtualizeSystem(p) ==
    /\ sh_pc[p] = "virtualizing"
    /\ \/ CapturePass(p, sh_registers[p], sh_registers[p].rax # 0)
       \/ /\ sh_pc' = [sh_pc EXCEPT ![p] = "failed"]
          /\ UNCHANGED <<sh_registers, virtualize_count, passes>>
    /\ UNCHANGED <<enabled, boot_pc, pending, start_count>>

\* startup_all_aps, or the single call, has returned: Ok(()).
BootReturn ==
    /\ boot_pc = "running"
    /\ pending = {}
    /\ \A q \in DOMAIN sh_pc : sh_pc[q] \in {"idle", "returned"}
    /\ boot_pc' = "returned"
    /\ UNCHANGED <<enabled, pending, sh_pc, sh_registers, start_count,
                   virtualize_count, passes>>

InitBoot(counts) ==
    /\ enabled \in counts
    /\ boot_pc = "start"
    /\ pending = {}
    /\ sh_pc = [p \in Processors(enabled) |-> "idle"]
    /\ sh_registers = [p \in Processors(enabled) |-> [rax |-> 0, rbx |-> 0]]
    /\ start_count = [p \in Processors(enabled) |-> 0]
    /\ virtualize_count = [p \in Processors(enabled) |-> 0]
    /\ passes = [p \in Processors(enabled) |-> <<>>]

BootIdle == InitBoot({1})

vars == <<hook_vars, msr_vars, vm_vars, boot_vars>>

Init == InitHooks(NumLarge) /\ MsrIdle /\ VmIdle /\ BootIdle

HookInputs == {va_from_pa(a) : a \in GuestAddrs(NumLarge)}

\* The outcomes split_2mb_to_4kb can have in a call for va: a choice exists
\* only when the call splits a large page that is no longer a leaf.
SplitChoices(va) ==
    LET guest_page_pa == align_down_to_base_page(pa_from_va(va))
    IN  IF ~is_page_split(HookState, guest_page_pa) /\ EptIsSplit(HookState, guest_page_pa)
        THEN SplitOutcomes
        ELSE {"Unchanged"}

InstallFunctionHook ==
    \E va \in HookInputs : \E o \in SplitChoices(va) : EptHookFunction(va, "Function", o)

InstallPageHook ==
    \E va \in HookInputs : \E o \in SplitChoices(va) : EptHookFunction(va, "Page", o)

Next ==
    \/ calls < MaxCalls /\ InstallFunctionHook /\ UNCHANGED <<msr_vars, vm_vars, boot_vars>>
    \/ calls < MaxCalls /\ InstallPageHook /\ UNCHANGED <<msr_vars, vm_vars, boot_vars>>

Spec == Init /\ [][Next]_vars

\* ------------------------------------------------------- capacity runs
\* Hooks are asked for on the first page of one large page after the other
\* (pairwise distinct pages of distinct large pages), or once more on the page
\* hooked last.
CapInit == InitHooks(CapLarge) /\ MsrIdle /\ VmIdle /\ BootIdle

FreshLarge == {l \in DOMAIN ept_pd : ept_pd[l].large}
HookedLarge == {l \in DOMAIN ept_pd : ~ept_pd[l].large}

InstallOnFreshPage ==
    \E l \in FreshLarge :
        /\ \A k \in FreshLarge : l <= k
        /\ EptHookFunction(va_from_pa(l), "Function", "Unchanged")

InstallOnHookedPage ==
    \E l \in HookedLarge :
        /\ \A k \in HookedLarge : k <= l
        /\ EptHookFunction(va_from_pa(l), "Function", "Unchanged")

CapNext ==
    \/ calls <= MAX_HOOKS /\ InstallOnFreshPage /\ UNCHANGED <<msr_vars, vm_vars, boot_vars>>
    \/ calls <= MAX_HOOKS /\ InstallOnHookedPage /\ UNCHANGED <<msr_vars, vm_vars, boot_vars>>

SpecCap == CapInit /\ [][CapNext]_vars

\* ------------------------------------------------------------- MSR runs
\* One core, either build; the guest executes RDMSR and WRMSR instructions.
MsrInit == InitHooks(NumLarge) /\ InitMsr({0}, BOOLEAN) /\ VmIdle /\ BootIdle

MsrNext ==
    \/ msr_ops < MaxMsrOps /\ GuestRdmsr(0) /\ UNCHANGED <<hook_vars, vm_vars, boot_vars>>
    \/ msr_ops < MaxMsrOps /\ GuestWrmsr(0) /\ UNCHANGED <<hook_vars, vm_vars, boot_vars>>

SpecMsr == MsrInit /\ [][MsrNext]_vars

\* ------------------------------------------------- the MSR handler alone
\* handle_msr_access as a function of the control block it is given: one core
\* whose control block holds any captured IA32_LSTAR value, the hook value
\* equal to it as the write arm leaves it.
HandlerInit ==
    /\ InitHooks(NumLarge) /\ VmIdle /\ BootIdle
    /\ \E captured \in CapturedLstarValues :
          /\ feature_vmware = FALSE
          /\ guest_registers = [c \in {0} |->
                [rax |-> 0, rdx |-> 0, rcx |-> [top |-> 0, id |-> <<0, 0>>],
                 original_lstar |-> captured, hook_lstar |-> captured]]
          /\ hw_msr = [c \in {0} |-> [id \in ValidMsrIds |->
                IF id = IA32_FEATURE_CONTROL
                THEN 2 ^ VMX_LOCK_BIT + 2 ^ VMXON_OUTSIDE_SMX
                ELSE IF id = IA32_LSTAR THEN captured ELSE 0]]
          /\ msr_bitmap = IF captured = 0 THEN ValidMsrIds \X {"Read", "Write"}
                          ELSE (ValidMsrIds \X {"Read", "Write"})
                                   \ {<<IA32_LSTAR, "Write">>}
          /\ kernel_hook = IF captured = 0 THEN [found_from |-> -1]
                           ELSE [found_from |-> captured]
          /\ lstar_first = [c \in {0} |-> IF captured = 0 THEN -1 ELSE captured]
          /\ lstar_written = [c \in {0} |-> IF captured = 0 THEN -1 ELSE captured]
          /\ lstar_write_exits = IF captured = 0 THEN 0 ELSE 1
    /\ injected_gp = [c \in {0} |-> FALSE]
    /\ core_state = [c \in {0} |-> "running"]
    /\ msr_ops = 0
    /\ lstar_rewritten = [c \in {0} |-> FALSE]
    /\ msr_last = NoMsr

HandlerNext ==
    msr_ops < MaxHandlerCalls /\ HandleMsrAccessCall(0)
        /\ UNCHANGED <<hook_vars, vm_vars, boot_vars>>

SpecHandler == HandlerInit /\ [][HandlerNext]_vars

\* ------------------------------------------------------- MSR exits, SMP
\* Two cores with one MSR bitmap, each with its own control block and its own
\* hardware MSRs, execute RDMSR and WRMSR in any interleaving.
SmpInit == InitHooks(NumLarge) /\ InitMsr(MsrCores, {FALSE}) /\ VmIdle /\ BootIdle

SmpNext ==
    \/ \E c \in MsrCores :
          /\ msr_ops < MaxMsrOps
          /\ GuestRdmsrOf(c, SmpRcxValues)
          /\ UNCHANGED <<hook_vars, vm_vars, boot_vars>>
    \/ \E c \in MsrCores :
          /\ msr_ops < MaxMsrOps
          /\ GuestWrmsrOf(c, SmpRcxValues)
          /\ UNCHANGED <<hook_vars, vm_vars, boot_vars>>

SpecSmp == SmpInit /\ [][SmpNext]_vars

\* -------------------------------------------------------- lifecycle runs
\* Two cores start up and run their exit loops side by side.
VmInit == InitHooks(NumLarge) /\ MsrIdle /\ InitVm(VmCores, BOOLEAN) /\ BootIdle

VmNext ==
    \/ \E c \in VmCores : VmInitCall(c) /\ UNCHANGED <<hook_vars, msr_vars, boot_vars>>
    \/ \E c \in VmCores : ActivateVmxon(c) /\ UNCHANGED <<hook_vars, msr_vars, boot_vars>>
    \/ \E c \in VmCores : ActivateVmcs(c) /\ UNCHANGED <<hook_vars, msr_vars, boot_vars>>
    \/ \E c \in VmCores : SetupVmcsLockHookManager(c) /\ UNCHANGED <<hook_vars, msr_vars, boot_vars>>
    \/ \E c \in VmCores : SetupVmcsLockDescriptorManager(c) /\ UNCHANGED <<hook_vars, msr_vars, boot_vars>>
    \/ \E c \in VmCores : SetupVmcsPopulate(c) /\ UNCHANGED <<hook_vars, msr_vars, boot_vars>>
    \/ \E c \in VmCores : RunEnter(c) /\ UNCHANGED <<hook_vars, msr_vars, boot_vars>>
    \/ \E c \in VmCores : RunAgain(c) /\ UNCHANGED <<hook_vars, msr_vars, boot_vars>>
    \/ \E c \in VmCores : GuestExit(c) /\ UNCHANGED <<hook_vars, msr_vars, boot_vars>>
    \/ \E c \in VmCores : LstarWriteLockHookManager(c) /\ UNCHANGED <<hook_vars, msr_vars, boot_vars>>
    \/ \E c \in VmCores : LstarWriteReturn(c) /\ UNCHANGED <<hook_vars, msr_vars, boot_vars>>

SpecVm == VmInit /\ [][VmNext]_vars

\* ------------------------------------------------------------ boot runs
\* The driver starts the hypervisor on a machine with 1 .. MaxProcessors
\* enabled processors.
BootInit ==
    InitHooks(NumLarge) /\ MsrIdle /\ VmIdle /\ InitBoot(1 .. MaxProcessors)

BootNext ==
    \/ BootDispatch /\ UNCHANGED <<hook_vars, msr_vars, vm_vars>>
    \/ \E p \in DOMAIN sh_pc : StartHypervisorCall(p) /\ UNCHANGED <<hook_vars, msr_vars, vm_vars>>
    \/ \E p \in DOMAIN sh_pc : VirtualizeSystem(p) /\ UNCHANGED <<hook_vars, msr_vars, vm_vars>>
    \/ BootReturn /\ UNCHANGED <<hook_vars, msr_vars, vm_vars>>

SpecBoot == BootInit /\ [][BootNext]_vars

\* ------------------------------------------------- the hook manager's claims
Called == last.result # "none"
LastPa == pa_from_va(last.va)
LastPage == align_down_to_base_page(LastPa)
LastLarge == align_down_to_large_page(LastPa)
LastOffset == base_page_offset(LastPa)
PageOffsets == 0 .. (PageBytes - 1)

\* The byte at an offset of the shadow page of a guest page.
ShadowByte(s, guest_page_pa, off) == s.mem[s.shadow_pages[guest_page_pa] + off]

\* The offsets of the shadow page of a guest page that hold a detour.
Detours(s, guest_page_pa) ==
    {off \in PageOffsets : ShadowByte(s, guest_page_pa, off) = DetourByte}

\* A guest page whose hook is in place: split, shadow-copied with a detour,
\* and read-write without execute in the EPT.
FullyHooked(s, guest_page_pa) ==
    /\ is_page_split(s, guest_page_pa)
    /\ is_page_copied(s, guest_page_pa)
    /\ Detours(s, guest_page_pa) # {}
    /\ EptIsSplit(s, guest_page_pa)
    /\ EptAccess(s, guest_page_pa) = READ_WRITE

\* A guest page no hook has touched: not split, not copied, inside a 2 MB leaf
\* of the identity map with full access.
Unhooked(s, guest_page_pa) ==
    /\ ~is_page_split(s, guest_page_pa)
    /\ ~is_page_copied(s, guest_page_pa)
    /\ ~EptIsSplit(s, guest_page_pa)
    /\ EptAccess(s, guest_page_pa) = READ_WRITE_EXECUTE

\* C1: a successful install for address A in an unhooked page P leaves the
\* 2 MB leaf of P split into the page table of P, a shadow page equal to the
\* bytes P had before the call except for the detour at offset A mod page
\* size, P read-write without execute in the EPT, INVEPT and INVVPID done, and
\* the hook index one higher.
C1_FreshInstall ==
    (last.result = "Ok" /\ Unhooked(last.pre, LastPage)) =>
        /\ EptIsSplit(HookState, LastPage)
        /\ ept_pd[LastLarge].pt = get_page_table(HookState, LastPage)
        /\ is_page_split(HookState, LastPage)
        /\ is_page_copied(HookState, LastPage)
        /\ \A off \in PageOffsets :
              ShadowByte(HookState, LastPage, off) =
                  IF off = LastOffset THEN DetourByte
                  ELSE last.pre.mem[LastPage + off]
        /\ EptAccess(HookState, LastPage) = READ_WRITE
        /\ ~ept_stale
        /\ ~vpid_stale
        /\ current_hook_index = last.pre.current_hook_index + 1

\* C1 witness: a successful install at a non-zero page offset of an unhooked page.
C1_Witness ==
    last.result = "Ok" /\ Unhooked(last.pre, LastPage) /\ LastOffset # 0

\* C2: successful installs in one page split and copy it once: after each of
\* them the page is split and copied; a call that finds the page split takes
\* no page table and leaves the PD alone; a call that finds it copied takes no
\* shadow page, keeps the shadow page's address and changes no shadow byte but
\* the detour's; a call that finds it not split (not copied) takes exactly one
\* page table (shadow page), for this page.
C2_SplitAndCopyOnce ==
    last.result = "Ok" =>
        /\ is_page_split(HookState, LastPage)
        /\ is_page_copied(HookState, LastPage)
        /\ IF is_page_split(last.pre, LastPage)
           THEN /\ DOMAIN page_tables = DOMAIN last.pre.page_tables
                /\ ept_pd = last.pre.ept_pd
           ELSE DOMAIN page_tables = DOMAIN last.pre.page_tables \cup {LastPage}
        /\ IF is_page_copied(last.pre, LastPage)
           THEN /\ shadow_pages = last.pre.shadow_pages
                /\ \A off \in PageOffsets \ {LastOffset} :
                      ShadowByte(HookState, LastPage, off) =
                          ShadowByte(last.pre, LastPage, off)
           ELSE /\ DOMAIN shadow_pages = DOMAIN last.pre.shadow_pages \cup {LastPage}
                /\ \A p \in DOMAIN last.pre.shadow_pages :
                      shadow_pages[p] = last.pre.shadow_pages[p]

\* C2 witness: a second successful install in a hooked page, at another
\* offset, with the first detour still in the shadow page.
C2_Witness ==
    /\ last.result = "Ok"
    /\ FullyHooked(last.pre, LastPage)
    /\ LastOffset \notin Detours(last.pre, LastPage)
    /\ Cardinality(Detours(HookState, LastPage)) = 2

\* C3 as claimed: while the installs so far were for pairwise distinct pages
\* and at most MAX_HOOKS of them were made, the last one succeeded and every
\* page asked for is hooked (split, shadow-copied with its detour, read-write
\* without execute in the EPT); the install after MAX_HOOKS of them fails with
\* the capacity error and changes nothing.
C3_DistinctPagesCapacity ==
    (last.kind = "Function" /\ Cardinality(targets) = calls) =>
        IF calls <= MAX_HOOKS
        THEN /\ last.result = "Ok"
             /\ \A p \in targets : FullyHooked(HookState, p)
        ELSE /\ last.result = "CapacityExceeded"
             /\ HookState = last.pre
             /\ current_hook_index = MAX_HOOKS

\* C4 as claimed: the hook index never exceeds MAX_HOOKS, and an install tried
\* at index MAX_HOOKS returns the capacity error and leaves the index alone.
C4_IndexWithinCapacity ==
    /\ current_hook_index <= MAX_HOOKS
    /\ (Called /\ last.pre.current_hook_index = MAX_HOOKS) =>
           (last.result = "CapacityExceeded" /\ current_hook_index = MAX_HOOKS)

\* C5: no call writes the guest's pages: every byte of guest memory is as
\* before the call, whatever the result; a successful install changes bytes of
\* the shadow page of its page only and leaves the detour at shadow base +
\* (function address mod page size); a repeated install changes no byte but that.
C5_GuestPageUntouched ==
    Called =>
        /\ \A a \in DOMAIN last.pre.mem :
              a < ShadowPoolBase => mem[a] = last.pre.mem[a]
        /\ last.result = "Ok" =>
              /\ mem[shadow_pages[LastPage] + LastOffset] = DetourByte
              /\ \A a \in DOMAIN mem :
                    (a \notin DOMAIN last.pre.mem \/ mem[a] # last.pre.mem[a]) =>
                        a \in ShadowPageAddrs(shadow_pages[LastPage])
              /\ is_page_copied(last.pre, LastPage) =>
                    \A a \in DOMAIN mem :
                        a # shadow_pages[LastPage] + LastOffset =>
                            (a \in DOMAIN last.pre.mem /\ mem[a] = last.pre.mem[a])

\* C5 witness: a successful install on a page hooked before, the guest page
\* holding the bytes it had at the start.
C5_Witness ==
    /\ last.result = "Ok"
    /\ is_page_copied(last.pre, LastPage)
    /\ \A off \in PageOffsets : mem[LastPage + off] # DetourByte

\* C6 as claimed: a call with kind Page panics and leaves the hook index, the
\* EPT and the split and copied state of its page as they were.
C6_PageHookChangesNothing ==
    last.kind = "Page" =>
        /\ last.result = "panic"
        /\ current_hook_index = last.pre.current_hook_index
        /\ ept_pd = last.pre.ept_pd
        /\ page_tables = last.pre.page_tables
        /\ is_page_split(HookState, LastPage) = is_page_split(last.pre, LastPage)
        /\ is_page_copied(HookState, LastPage) = is_page_copied(last.pre, LastPage)

\* C6 amended: a call with kind Page never returns Ok and never returns
\* silently: it ends in the panic, or in the error of the page-table, split or
\* shadow-page step before it; the hook index, the EPT access right of its page,
\* guest memory and the detours of its shadow page are as before the call; when
\* it panics the split and copy steps have run, so its page is split and copied.
C6_PageHookPanicsAfterSplitAndCopy ==
    last.kind = "Page" =>
        /\ last.result \in {"panic", "CapacityExceeded", "PageAlreadySplit"}
        /\ panicked = (last.result = "panic")
        /\ current_hook_index = last.pre.current_hook_index
        /\ EptAccess(HookState, LastPage) = EptAccess(last.pre, LastPage)
        /\ \A a \in DOMAIN last.pre.mem : mem[a] = last.pre.mem[a]
        /\ last.result = "panic" =>
              /\ is_page_split(HookState, LastPage)
              /\ is_page_copied(HookState, LastPage)
              /\ Detours(HookState, LastPage) =
                    IF is_page_copied(last.pre, LastPage)
                    THEN Detours(last.pre, LastPage) ELSE {}

\* C6 witness: a Page call on an unhooked page has panicked, the page split
\* and copied by then.
C6_Witness ==
    /\ last.kind = "Page"
    /\ last.result = "panic"
    /\ Unhooked(last.pre, LastPage)
    /\ is_page_split(HookState, LastPage)
    /\ is_page_copied(HookState, LastPage)
\* ---------------------------------------------------- the MSR exit's claims
MsrDone == msr_last.access # "none"
MsrCore == msr_last.core
MsrId == msr_last.pre.guest_registers[MsrCore].rcx.id
MsrWritten ==
    Shl32(msr_last.pre.guest_registers[MsrCore].rdx)
        + MaskLow(msr_last.pre.guest_registers[MsrCore].rax)

\* Identifiers outside 0x0..0x1FFF and 0xC0000000..0xC0001FFF.
OutsideValidRanges(msr_id) ==
    ~contains(MSR_VALID_RANGE_LOW, msr_id) /\ ~contains(MSR_VALID_RANGE_HIGH, msr_id)
InHyperVRange(msr_id) == contains(MSR_HYPERV_RANGE, msr_id)

\* C7: in the default build a read or write of an identifier outside both
\* valid ranges, or inside the Hyper-V range, exits, gets #GP injected and the
\* disposition Continue, and leaves the guest registers (rax, rdx, the captured
\* LSTAR values), the hardware MSRs and the MSR bitmap as they were.
C7_InvalidMsrFaults ==
    (MsrDone /\ ~feature_vmware /\ (OutsideValidRanges(MsrId) \/ InHyperVRange(MsrId))) =>
        /\ msr_last.exited
        /\ msr_last.err = "Ok"
        /\ msr_last.exit = "Continue"
        /\ injected_gp[MsrCore]
        /\ guest_registers = msr_last.pre.guest_registers
        /\ hw_msr = msr_last.pre.hw_msr
        /\ msr_bitmap = msr_last.pre.msr_bitmap
        /\ kernel_hook = msr_last.pre.kernel_hook

\* C7 witness: in the default build a write of 0x2000 with rax and rdx loaded
\* has been answered with #GP.
C7_Witness ==
    /\ MsrDone
    /\ ~feature_vmware
    /\ msr_last.access = "Write"
    /\ MsrId = <<0, 8192>>
    /\ MsrWritten = Word - 1
    /\ injected_gp[MsrCore]

\* C8 as claimed: in the vmware build an access inside the Hyper-V range gets no
\* #GP, and an access outside both valid ranges and outside the Hyper-V range
\* gets #GP and the disposition Continue.
C8_VmwareRelaxesHyperVOnly ==
    (MsrDone /\ feature_vmware) =>
        /\ InHyperVRange(MsrId) => ~injected_gp[MsrCore]
        /\ (OutsideValidRanges(MsrId) /\ ~InHyperVRange(MsrId)) =>
              (injected_gp[MsrCore] /\ msr_last.exit = "Continue")

\* C9: after the first write of IA32_LSTAR on a control block (value V, handled
\* by the exit), an intercepted read of IA32_LSTAR gives the guest V: rax the
\* low half of V, rdx the high half.
C9_LstarReadBack ==
    (/\ MsrDone
     /\ msr_last.access = "Read"
     /\ MsrId = IA32_LSTAR
     /\ msr_last.exited
     /\ lstar_first[MsrCore] # -1) =>
        /\ msr_last.err = "Ok"
        /\ guest_registers[MsrCore].rax = MaskLow(lstar_first[MsrCore])
        /\ guest_registers[MsrCore].rdx = Shr32(lstar_first[MsrCore])

\* C9 witness: the all-ones value, written with bits above the low half of rax
\* and rdx, has been read back.
C9_Witness ==
    /\ MsrDone
    /\ msr_last.access = "Read"
    /\ MsrId = IA32_LSTAR
    /\ msr_last.exited
    /\ lstar_first[MsrCore] = Word - 1
    /\ guest_registers[MsrCore].rdx = Half - 1

MsrDelivered ==
    guest_registers[MsrCore].rdx * Half + guest_registers[MsrCore].rax
MsrReadHandled(msr_id) ==
    /\ MsrDone
    /\ msr_last.access = "Read"
    /\ msr_last.exited
    /\ MsrId = msr_id

\* C11 as claimed: an intercepted read of IA32_LSTAR gives the captured
\* original when a write has been captured on the control block, and the live
\* hardware value of IA32_LSTAR when none has.
C11_LstarReadShadowOrLive ==
    MsrReadHandled(IA32_LSTAR) =>
        /\ msr_last.err = "Ok"
        /\ MsrDelivered =
              IF lstar_first[MsrCore] # -1 THEN lstar_first[MsrCore]
              ELSE msr_last.pre.hw_msr[MsrCore][IA32_LSTAR]

\* The bits of a register value.
RegBits == 0 .. (2 * HalfBits - 1)

\* C12: an intercepted read of IA32_FEATURE_CONTROL delivers the live value
\* with bit 0 set, bit 2 clear and every other bit as in the live value, rax
\* the low half and rdx the high half, and does not write the hardware register.
C12_FeatureControlReadLocked ==
    MsrReadHandled(IA32_FEATURE_CONTROL) =>
        LET live == msr_last.pre.hw_msr[MsrCore][IA32_FEATURE_CONTROL]
        IN  /\ msr_last.err = "Ok"
            /\ guest_registers[MsrCore].rax < Half
            /\ guest_registers[MsrCore].rdx < Half
            /\ get_bit(MsrDelivered, VMX_LOCK_BIT)
            /\ ~get_bit(MsrDelivered, VMXON_OUTSIDE_SMX)
            /\ \A b \in RegBits \ {VMX_LOCK_BIT, VMXON_OUTSIDE_SMX} :
                  get_bit(MsrDelivered, b) = get_bit(live, b)
            /\ hw_msr = msr_last.pre.hw_msr

\* C12 witness: the register held all ones (lock set, VMXON outside SMX set,
\* bits in the high half) and has been read.
C12_Witness ==
    /\ MsrReadHandled(IA32_FEATURE_CONTROL)
    /\ msr_last.pre.hw_msr[MsrCore][IA32_FEATURE_CONTROL] = Word - 1
    /\ MsrDelivered = Word - 1 - 2 ^ VMXON_OUTSIDE_SMX

FirstEntryReturned(c) ==
    vm_entries[c] > 1 \/ (vm_entries[c] = 1 /\ vm_pc[c] # "in_guest")

\* C14: after init the control block has has_launched = false; once the first
\* run() whose guest entry succeeded has returned it is true, and it is true in
\* every state after further run() calls, whatever their outcome.
C14_LaunchStateSticks ==
    \A c \in DOMAIN vm_pc :
        /\ (vm_results[c].init = "Ok" /\ ~FirstEntryReturned(c)) => ~has_launched[c]
        /\ FirstEntryReturned(c) => has_launched[c]

\* C14 witness: a block has been entered once, and its second run() has
\* failed at the entry.
C14_Witness ==
    \E c \in DOMAIN vm_pc :
        /\ vm_runs[c] = 2
        /\ vm_entries[c] = 1
        /\ vm_run_last[c].result = "VMFailToLaunch"
        /\ has_launched[c]

HoldsLock(c) == hook_manager_lock = c \/ descriptor_manager_lock = c

\* C17: the locks taken in setup_vmcs and in the IA32_LSTAR write path are
\* released when the function has returned, with Ok or with an error; no core
\* holds a lock while its guest executes.
C17_LocksReleased ==
    \A c \in DOMAIN vm_pc :
        /\ vm_pc[c] \notin {"setup_vmcs_hm", "setup_vmcs_dm", "lstar_write_hm"} =>
              ~HoldsLock(c)
        /\ hook_manager_lock = c =>
              vm_pc[c] \in {"setup_vmcs_hm", "setup_vmcs_dm", "lstar_write_hm"}
        /\ descriptor_manager_lock = c => vm_pc[c] = "setup_vmcs_dm"
        /\ vm_pc[c] = "in_guest" => ~HoldsLock(c)

\* C17 witness: setup_vmcs has returned an error on one core, and another core
\* has since taken both locks while a guest entry of neither is under way.
C17_Witness ==
    \E c, d \in DOMAIN vm_pc :
        /\ vm_pc[c] = "failed"
        /\ vm_results[c].vmcs = "HostStateError"
        /\ d # c
        /\ hook_manager_lock = d
        /\ descriptor_manager_lock = d

\* ------------------------------------------------------- the boot's claims
\* C18: on each processor start_hypervisor calls virtualize_system exactly
\* once: on the first pass through the capture point (marker false) it calls
\* it, and on the re-entry as the guest's resumption (marker true, rax = 1) it
\* returns without calling it again.
C18_VirtualizeOnce ==
    \A p \in DOMAIN sh_pc :
        /\ virtualize_count[p] = (IF start_count[p] > 0 THEN 1 ELSE 0)
        /\ Len(passes[p]) >= 1 => ~passes[p][1]
        /\ Len(passes[p]) >= 2 =>
              /\ passes[p][2]
              /\ sh_registers[p].rax = 1
              /\ sh_pc[p] = "returned"
        /\ Len(passes[p]) <= 2

\* C18 witness: a processor has been through both passes of the capture
\* point.
C18_Witness ==
    \E p \in DOMAIN sh_pc :
        /\ passes[p] = <<FALSE, TRUE>>
        /\ virtualize_count[p] = 1
        /\ sh_pc[p] = "returned"

\* C19 as claimed: once start_hypervisor_on_all_processors has returned Ok,
\* start_hypervisor has run exactly once on every enabled processor, the
\* bootstrap processor included, for every count of enabled processors.
C19_EveryProcessorStarted ==
    boot_pc = "returned" =>
        \A p \in Processors(enabled) : start_count[p] = 1

\* ------------------------------------------------ the hook's frame effect
\* The 4 KB pages of the guest.
GuestPages == {align_down_to_base_page(a) : a \in DOMAIN InitialMemory(NumLarge)}

NotHookedAtAll(s, guest_page_pa) ==
    /\ ~is_page_split(s, guest_page_pa)
    /\ ~is_page_copied(s, guest_page_pa)
    /\ EptAccess(s, guest_page_pa) = READ_WRITE_EXECUTE

\* C21 as claimed: after every call of ept_hook_function that returned (Ok or
\* an error) each guest page is fully hooked or not hooked at all, and a call
\* that returned an error has left the Memory Manager, the EPT and the hook
\* index as they were.
C21_AllOrNothing ==
    (Called /\ last.result # "panic") =>
        /\ \A q \in GuestPages :
              FullyHooked(HookState, q) \/ NotHookedAtAll(HookState, q)
        /\ last.result # "Ok" =>
              /\ page_tables = last.pre.page_tables
              /\ shadow_pages = last.pre.shadow_pages
              /\ ept_pd = last.pre.ept_pd
              /\ current_hook_index = last.pre.current_hook_index

\* --------------------------------------------------- the install's order
\* The steps a successful install for a page in the given state goes through.
ExpectedSteps(s, guest_page_pa) ==
    (IF is_page_split(s, guest_page_pa) THEN <<>> ELSE <<"split">>)
        \o (IF is_page_copied(s, guest_page_pa) THEN <<>> ELSE <<"copy">>)
        \o <<"detour", "permission", "invept", "invvpid", "index">>

\* C22: a successful call goes through split (if needed), shadow copy (if
\* needed), detour, permission change, INVEPT, INVVPID and index increment in
\* this order, a repeat on a hooked page included, and leaves no translation
\* cached from before the permission change; no call changes the permission
\* before the shadow copy and the detour are done.
C22_StepOrder ==
    Called =>
        /\ last.result = "Ok" =>
              /\ steps = ExpectedSteps(last.pre, LastPage)
              /\ ~ept_stale
              /\ ~vpid_stale
        /\ \A i \in DOMAIN steps :
              steps[i] = "permission" =>
                  /\ \E j \in 1 .. (i - 1) : steps[j] = "detour"
                  /\ is_page_copied(HookState, LastPage)

\* C22 witness: a repeat install on a hooked page has gone through detour,
\* permission change, both invalidations and the increment.
C22_Witness ==
    /\ last.result = "Ok"
    /\ FullyHooked(last.pre, LastPage)
    /\ steps = <<"detour", "permission", "invept", "invvpid", "index">>

\* ------------------------------------------- IA32_LSTAR on several cores
LstarWrite == <<IA32_LSTAR, "Write">>

\* What Vm::init's bitmap intercepts.
FullBitmap == ValidMsrIds \X {"Read", "Write"}

LstarWriteHandled ==
    /\ MsrDone
    /\ msr_last.access = "Write"
    /\ MsrId = IA32_LSTAR
    /\ msr_last.exited
    /\ msr_last.err = "Ok"

\* C24: after the handler returns from an IA32_LSTAR write whose value differs
\* from the original already captured in the control block, the hardware
\* IA32_LSTAR holds the value the guest wrote.
C24_OtherValuePassedThrough ==
    (/\ LstarWriteHandled
     /\ msr_last.pre.guest_registers[MsrCore].original_lstar # 0
     /\ MsrWritten # msr_last.pre.guest_registers[MsrCore].original_lstar) =>
        hw_msr[MsrCore][IA32_LSTAR] = MsrWritten

\* ------------------------------------------------------ launch or resume
\* An earlier attempt of the core entered the guest.
EnteredBefore(c, i) == \E j \in 1 .. (i - 1) : vm_attempts[c][j].entered

\* C25: each run() makes one entry attempt: VMLAUNCH when no earlier attempt on
\* the control block entered the guest, VMRESUME otherwise; a run() whose
\* entry failed has left has_launched as it was, so that the attempt after a
\* failed first launch is a launch again.
C25_LaunchUntilEntered ==
    \A c \in DOMAIN vm_pc :
        /\ Len(vm_attempts[c]) = vm_runs[c]
        /\ \A i \in DOMAIN vm_attempts[c] :
              vm_attempts[c][i].instruction =
                  IF EnteredBefore(c, i) THEN "VMRESUME" ELSE "VMLAUNCH"
        /\ (vm_runs[c] > 0 /\ ~vm_attempts[c][vm_runs[c]].entered) =>
              has_launched[c] = EnteredBefore(c, vm_runs[c])

\* C25 witness: a first launch failed and the next run() launched again and
\* entered the guest.
C25_Witness ==
    \E c \in DOMAIN vm_pc :
        /\ Len(vm_attempts[c]) = 2
        /\ ~vm_attempts[c][1].entered
        /\ vm_attempts[c][2] = [instruction |-> "VMLAUNCH", entered |-> TRUE]

\* ------------------------------------------------ two hooks in one page
\* The last call was a successful install at an offset of a hooked page that
\* held no detour yet.
SecondHookInPage ==
    /\ last.result = "Ok"
    /\ last.kind = "Function"
    /\ LastPage \in DOMAIN last.pre.shadow_pages
    /\ Detours(last.pre, LastPage) # {}
    /\ LastOffset \notin Detours(last.pre, LastPage)

\* C26: a second function hook at another address of a hooked page does not
\* copy the page again: the shadow page is the one of the first install, the
\* detours it held are still there and the new one is added; every other byte
\* of the shadow page is as before.
C26_SecondHookKeepsFirst ==
    SecondHookInPage =>
        /\ \A i \in DOMAIN steps : steps[i] # "copy"
        /\ shadow_pages[LastPage] = last.pre.shadow_pages[LastPage]
        /\ Detours(HookState, LastPage) = Detours(last.pre, LastPage) \cup {LastOffset}
        /\ \A off \in PageOffsets \ {LastOffset} :
              ShadowByte(HookState, LastPage, off) = ShadowByte(last.pre, LastPage, off)

\* C26 witness: the first hook of a page is at offset 0, the second at the
\* page's last byte, and the shadow page holds both detours.
C26_Witness ==
    /\ SecondHookInPage
    /\ Detours(last.pre, LastPage) = {0}
    /\ LastOffset = PageBytes - 1
    /\ Detours(HookState, LastPage) = {0, PageBytes - 1}

\* ------------------------------------- reads on cores that wrote unseen
\* C27: with several cores sharing the bitmap, an intercepted read of
\* IA32_LSTAR on a core whose guest has written IA32_LSTAR (first value V, with
\* or without an exit) gives the guest V.
C27_EveryCoreReadsItsValue ==
    (/\ MsrDone
     /\ msr_last.access = "Read"
     /\ MsrId = IA32_LSTAR
     /\ msr_last.exited
     /\ lstar_written[MsrCore] # -1) =>
        /\ guest_registers[MsrCore].rax = MaskLow(lstar_written[MsrCore])
        /\ guest_registers[MsrCore].rdx = Shr32(lstar_written[MsrCore])

\* ------------------------------------------- the handler returning an error
\* C28: when handle_msr_access returns an error (the kernel image is not found
\* during an IA32_LSTAR write) it has changed nothing: the bitmap, the captured
\* original and hook values, the recorded kernel base and size and the
\* hardware MSRs are as before the call.
C28_ErrorChangesNothing ==
    (MsrDone /\ msr_last.exited /\ msr_last.err = "KernelNotFound") =>
        /\ msr_bitmap = msr_last.pre.msr_bitmap
        /\ guest_registers[MsrCore].original_lstar =
              msr_last.pre.guest_registers[MsrCore].original_lstar
        /\ guest_registers[MsrCore].hook_lstar =
              msr_last.pre.guest_registers[MsrCore].hook_lstar
        /\ kernel_hook = msr_last.pre.kernel_hook
        /\ hw_msr = msr_last.pre.hw_msr

====
